---- MODULE Spec2Model ----
(***************************************************************************)
(* Carbon Buddy chatbot (src/chatbot.py): a Streamlit script that is       *)
(* executed top to bottom on every interaction of a browser session.       *)
(* st.session_state survives between executions; module globals such as    *)
(* use_gemini are recomputed by each execution.                            *)
(*                                                                         *)
(* Text is modelled as a sequence of characters so that str.lower() and    *)
(* the substring test `k in q` are computed, not assumed.  A character is  *)
(* a one-character string; a character outside ASCII, which the module     *)
(* syntax cannot hold, is written as its code point, "{U+212A}".  The      *)
(* canned replies are atomic strings in which the non-ASCII characters are *)
(* written the same way.                                                   *)
(*                                                                         *)
(* Streamlit runs an execution in a thread of its own and stops it, when   *)
(* the user interacts with the page or presses Stop meanwhile, at the next *)
(* st.* call or st.session_state access the thread makes, by raising a     *)
(* script-control exception that derives from BaseException; `except       *)
(* Exception` does not catch it.  What the execution wrote to              *)
(* st.session_state stays.  The execution caused by the interaction starts *)
(* at once: a send_message call the stopped execution is waiting in goes   *)
(* on beside it, and its turn reaches the chat session when it returns;    *)
(* so does a list.append (line 167 or 172) of an execution that had passed *)
(* the st.session_state access of its line when it was told to stop, the   *)
(* start_chat call (line 16) of one that had passed the test of line 15,   *)
(* and the store of one that had passed the stop check of the assignment   *)
(* of line 16 or of line 134.                                              *)
(***************************************************************************)
EXTENDS Integers, Sequences, FiniteSets, TLC

VARIABLES
    api_key,          \* lines 7-9: truthiness of os.getenv("GOOGLE_API_KEY") as
                      \* read by the latest execution
    use_gemini,       \* lines 10-20: module global, the Mode (TRUE = Online)
    session_keys,     \* the keys present in st.session_state
    chat_session,     \* st.session_state.chat_session (when its key is present)
    started,          \* number of model.start_chat() calls made so far (line 16),
                      \* those that raised and those whose result was not
                      \* stored included
    chat_history,     \* st.session_state.chat_history
    current_score,    \* line 148: the score shown in the sidebar
    user_input,       \* line 163: value of st.chat_input, <<>> when None/empty
    gemini_response,  \* line 171: value returned by get_gemini_response
    notices,          \* st.info / st.warning / st.error emitted by this execution
    displayed,        \* lines 175-179: the messages of the transcript rendered
                      \* by the latest execution
    rendered,         \* line 163: the chat input widget has been put on the page
    call,             \* the get_gemini_response call of this execution: what
                      \* send_message did (line 41) and the path taken
    prev_raised,      \* the send_message of the latest call made by an
                      \* earlier execution (one that has ended or has been
                      \* told to stop) raised an Exception
    prev_in_flight,   \* that call has not ended yet: it is the last of pending
    pending,          \* the send_message calls (line 41) that executions
                      \* stopped meanwhile are still waiting in: the query,
                      \* and the chat session the call was made on
    late,             \* history entries whose list.append (line 167 or 172)
                      \* an execution overtaken by the next one has yet to
                      \* do, and the list it got from the session state
    late_calls,       \* number of executions overtaken between the test of
                      \* line 15, which found no chat session, and their
                      \* start_chat call (line 16), which is yet to be made
    late_stores,      \* the chat sessions (by id) that start_chat returned to
                      \* executions overtaken inside the assignment of line
                      \* 16, past its stop check, and that are yet to be stored
    late_inits,       \* number of executions overtaken inside the assignment
                      \* of line 134, past its stop check, whose empty list
                      \* is yet to be stored
    lists,            \* number of lists stored as st.session_state.chat_history
                      \* so far (line 134); it identifies the one stored now
    turns,            \* number of inputs submitted so far (line 163)
    pc                \* position of the script execution

vars == <<api_key, use_gemini, session_keys, chat_session, started, chat_history,
          current_score, user_input, gemini_response, notices,
          displayed, rendered, call, prev_raised, prev_in_flight, pending, late,
          late_calls, late_stores, late_inits, lists, turns, pc>>

(***************************************************************************)
(* Bounds of the model.                                                    *)
(***************************************************************************)
\* submitted inputs per session
MaxTurns == 2
\* model.start_chat() calls per session
MaxStarts == 2
\* executions overtaken inside the assignment of line 134 at a time
MaxLateInits == 1
\* fragments concatenated into a query of the matcher specification
MaxFrags == 2
\* longest history given to the score estimator specification
MaxScoreLen == 120

(***************************************************************************)
(* Text.                                                                   *)
(***************************************************************************)
UpperAlpha ==
    <<"A","B","C","D","E","F","G","H","I","J","K","L","M",
      "N","O","P","Q","R","S","T","U","V","W","X","Y","Z">>

LowerAlpha ==
    <<"a","b","c","d","e","f","g","h","i","j","k","l","m",
      "n","o","p","q","r","s","t","u","v","w","x","y","z">>

\* characters outside ASCII that the queries of the model may hold
KelvinSign == "{U+212A}"
CapitalEAcute == "{U+00C9}"
SmallEAcute == "{U+00E9}"
CapitalIDotAbove == "{U+0130}"
CombiningDotAbove == "{U+0307}"
LongS == "{U+017F}"

\* str.lower() on one character, which gives a string: Python lower-cases
\* by the Unicode tables, so KELVIN SIGN becomes ASCII k, capital I with dot
\* above becomes two characters, and LONG S, already lower case, stays.
\* Every character that is not named here or in UpperAlpha is one str.lower()
\* leaves alone (digits, space, punctuation, lower-case letters).
LowerChar(c) ==
    IF \E i \in DOMAIN UpperAlpha : UpperAlpha[i] = c
    THEN <<LowerAlpha[CHOOSE i \in DOMAIN UpperAlpha : UpperAlpha[i] = c]>>
    ELSE CASE c = KelvinSign -> <<"k">>
           [] c = CapitalEAcute -> <<SmallEAcute>>
           [] c = CapitalIDotAbove -> <<"i", CombiningDotAbove>>
           [] OTHER -> <<c>>

\* str.lower()
RECURSIVE Lower(_)
Lower(s) == IF s = <<>> THEN <<>> ELSE LowerChar(Head(s)) \o Lower(Tail(s))

\* the Python test `k in s` on strings
Contains(k, s) ==
    \E i \in 0..(Len(s) - Len(k)) : SubSeq(s, i + 1, i + Len(k)) = k

\* any(k in s for k in keys)
AnyIn(keys, s) == \E n \in DOMAIN keys : Contains(keys[n], s)

K_joke == <<"j","o","k","e">>
K_funny == <<"f","u","n","n","y">>
K_make_me_laugh == <<"m","a","k","e"," ","m","e"," ","l","a","u","g","h">>
K_story == <<"s","t","o","r","y">>
K_bedtime == <<"b","e","d","t","i","m","e">>
K_tell_me_a_story == <<"t","e","l","l"," ","m","e"," ","a"," ","s","t","o","r","y">>
K_riddle == <<"r","i","d","d","l","e">>
K_puzzle == <<"p","u","z","z","l","e">>

JokeKeys == <<K_joke, K_funny, K_make_me_laugh>>
StoryKeys == <<K_story, K_bedtime, K_tell_me_a_story>>
RiddleKeys == <<K_riddle, K_puzzle>>

JokeReply == "Why did the tomato blush? Because it saw the salad dressing! {U+1F604}"
StoryReply == "Once upon a time a little star learned to shine. The end. {U+2728}"
RiddleReply == "What has keys but can't open locks? A keyboard!"
GenericReply == "I can't reach the helper brain right now, but I'd love to help {U+2014} try rephrasing your question or check your API key."

(***************************************************************************)
(* offline_reply, lines 25-34.                                             *)
(***************************************************************************)
\* mutant: the query is not lower-cased
offline_reply_no_lower(user_query) ==
    LET q == user_query
    IN  IF AnyIn(JokeKeys, q) THEN JokeReply
        ELSE IF AnyIn(StoryKeys, q) THEN StoryReply
        ELSE IF AnyIn(RiddleKeys, q) THEN RiddleReply
        ELSE GenericReply

offline_reply(user_query) ==
    LET q == Lower(user_query)
    IN  IF AnyIn(JokeKeys, q) THEN JokeReply
        ELSE IF AnyIn(StoryKeys, q) THEN StoryReply
        ELSE IF AnyIn(RiddleKeys, q) THEN RiddleReply
        ELSE GenericReply

(***************************************************************************)
(* compute_carbon_score, lines 138-144.                                    *)
(***************************************************************************)
base == 12
per_message == 1

Min(a, b) == IF a <= b THEN a ELSE b
Max(a, b) == IF a >= b THEN a ELSE b

\* mutant: the upper clamp is missing
compute_carbon_score_unclamped(history) ==
    LET score == base + Len(history) * per_message
    IN  Max(score, 0)

compute_carbon_score(history) ==
    LET score == base + Len(history) * per_message
    IN  Min(Max(score, 0), 100)

(***************************************************************************)
(* The remote conversation context and get_gemini_response, lines 37-47.   *)
(***************************************************************************)
\* what chat_session.send_message(user_query) and the read of the
\* response's text (lines 41-42) can do:
\*   "raise"                send_message raises an Exception (network, API)
\*   "base_exception"       send_message raises a BaseException that is not an
\*                          Exception (KeyboardInterrupt, SystemExit, ...)
\*   "text"                 it returns a response whose .text is a string
\*   "notext"               it returns an object without a text attribute
\*   "text_attribute_error" it returns a response whose .text property raises
\*                          AttributeError, which getattr's default absorbs
\*   "text_raises"          it returns a response whose .text property raises
\*                          another Exception (ValueError, ...)
RemoteOutcomes ==
    {"raise", "base_exception", "text", "notext", "text_attribute_error",
     "text_raises"}

\* response.text of a well-formed response
ResponseText == "Remote answer"
\* str(response), the default of getattr(response, "text", str(response))
ResponseRepr == "<response object>"

NoCall ==
    [returned |-> FALSE, sent |-> FALSE, outcome |-> "none", error |-> FALSE,
     session |-> 0]

\* mutant: response.text is read without a default, so an object without a
\* text attribute raises into the except handler
get_gemini_response_no_default(mode, user_query, outcome, stop) ==
    IF mode
    THEN CASE outcome = "text" ->
                [returned |-> TRUE, ret |-> ResponseText, sent |-> TRUE,
                 error |-> FALSE]
           [] outcome = "base_exception" ->
                [returned |-> FALSE, ret |-> "", sent |-> TRUE, error |-> FALSE]
           [] OTHER ->
                IF stop
                THEN [returned |-> FALSE, ret |-> "", sent |-> TRUE, error |-> TRUE]
                ELSE [returned |-> TRUE, ret |-> offline_reply(user_query),
                      sent |-> TRUE, error |-> TRUE]
    ELSE [returned |-> TRUE, ret |-> offline_reply(user_query), sent |-> FALSE,
          error |-> FALSE]

\* mutant: the use_gemini test is missing, the remote call is always made
get_gemini_response_always_remote(mode, user_query, outcome, stop) ==
    CASE outcome = "text" ->
           [returned |-> TRUE, ret |-> ResponseText, sent |-> TRUE, error |-> FALSE]
      [] outcome \in {"notext", "text_attribute_error"} ->
           [returned |-> TRUE, ret |-> ResponseRepr, sent |-> TRUE, error |-> FALSE]
      [] outcome = "base_exception" ->
           [returned |-> FALSE, ret |-> "", sent |-> TRUE, error |-> FALSE]
      [] OTHER ->
           IF stop
           THEN [returned |-> FALSE, ret |-> "", sent |-> TRUE, error |-> TRUE]
           ELSE [returned |-> TRUE, ret |-> offline_reply(user_query),
                 sent |-> TRUE, error |-> TRUE]

\* get_gemini_response(user_query) with use_gemini = mode, when the remote
\* does `outcome` and, with `stop`, st.error (line 46) raises a script-control
\* exception.  returned: the call returns a value (it does not when a
\* BaseException leaves it); ret: that value; sent: send_message was invoked
\* (line 41); error: the except handler ran and called st.error (45-46),
\* which shows the notice unless it is stopped.
get_gemini_response(mode, user_query, outcome, stop) ==
    IF mode
    THEN CASE outcome = "text" ->
                [returned |-> TRUE, ret |-> ResponseText, sent |-> TRUE,
                 error |-> FALSE]
           [] outcome \in {"notext", "text_attribute_error"} ->
                [returned |-> TRUE, ret |-> ResponseRepr, sent |-> TRUE,
                 error |-> FALSE]
           [] outcome = "base_exception" ->
                [returned |-> FALSE, ret |-> "", sent |-> TRUE, error |-> FALSE]
           [] OTHER ->
                IF stop
                THEN [returned |-> FALSE, ret |-> "", sent |-> TRUE, error |-> TRUE]
                ELSE [returned |-> TRUE, ret |-> offline_reply(user_query),
                      sent |-> TRUE, error |-> TRUE]
    ELSE [returned |-> TRUE, ret |-> offline_reply(user_query), sent |-> FALSE,
          error |-> FALSE]

(***************************************************************************)
(* Inputs of a session.                                                    *)
(***************************************************************************)
Q_tell_me_a_joke == <<"T","e","l","l"," ","m","e"," ","a"," ","j","o","k","e">>
Q_hello == <<"H","e","l","l","o">>

SessionQueries == {Q_tell_me_a_joke, Q_hello}

\* which of lines 13-16 raises in an execution, if any
InitFailures == {"none", "client", "start_chat"}

NoSession == [id |-> 0, history |-> <<>>]

(***************************************************************************)
(* State at the start of a browser session, before the first execution.    *)
(***************************************************************************)
Fresh ==
    /\ use_gemini = FALSE
    /\ session_keys = {}
    /\ chat_session = NoSession
    /\ started = 0
    /\ current_score = 0
    /\ gemini_response = ""
    /\ notices = {}
    /\ displayed = <<>>
    /\ rendered = FALSE
    /\ call = NoCall
    /\ prev_raised = FALSE
    /\ prev_in_flight = FALSE
    /\ pending = <<>>
    /\ late = <<>>
    /\ late_calls = 0
    /\ late_stores = {}
    /\ late_inits = 0
    /\ lists = 0
    /\ turns = 0

Init ==
    /\ Fresh
    /\ api_key = FALSE
    /\ chat_history = <<>>
    /\ user_input = <<>>
    /\ pc = "idle"

(***************************************************************************)
(* One script execution, step by step.                                     *)
(***************************************************************************)
\* the st.* calls and st.session_state accesses of lines 15-22 at which an
\* execution can be stopped: the test of line 15, the assignment of line 16,
\* st.warning (19) or st.info (22)
ModeStops == {"none", "check", "store", "notice"}

\* the places of lines 15-16 at which an execution that is told to stop goes
\* on for a while beside the next one: "call", past the test of line 15 and
\* before the start_chat call of line 16; "store", inside the assignment of
\* line 16, past its stop check and before the value is stored
ModeWindows == {"none", "call", "store"}

\* mutant: use_gemini = True is set before the try block and the handler
\* does not reset it
ModeSelect_online_despite_failure ==
    /\ pc = "idle"
    /\ \E key \in (IF api_key THEN {TRUE} ELSE BOOLEAN),
          fail \in InitFailures, stop \in ModeStops, window \in ModeWindows,
          early \in SUBSET late_stores :
         LET absent == "chat_session" \notin session_keys
             \* lines 13-14 raise
             clientFails == key /\ fail = "client"
             \* line 15 is reached, and the execution is stopped there
             checked == key /\ ~clientFails
             stopAtCheck == checked /\ stop = "check"
             \* the test of line 15 finds no chat session
             passes == checked /\ ~stopAtCheck /\ absent
             \* the next execution starts before start_chat is called
             overtakenAtCall == passes /\ window = "call"
             \* line 16 calls start_chat, which raises
             calls == passes /\ ~overtakenAtCall
             startFails == calls /\ fail = "start_chat"
             \* start_chat returned and the assignment of line 16 is stopped
             stopAtStore == calls /\ ~startFails /\ stop = "store"
             \* the assignment has passed its stop check, and the next
             \* execution starts before the store
             overtakenAtStore ==
                 calls /\ ~startFails /\ ~stopAtStore /\ window = "store"
             stores ==
                 calls /\ ~startFails /\ ~stopAtStore /\ ~overtakenAtStore
             \* line 17 is reached
             online == checked /\ ~stopAtCheck /\ ~overtakenAtCall /\ ~startFails
                           /\ ~stopAtStore /\ ~overtakenAtStore
             \* line 19 or line 22, and the execution is stopped there
             notice == IF clientFails \/ startFails THEN "warning"
                       ELSE IF ~key THEN "info" ELSE "none"
             stopAtNotice == notice # "none" /\ stop = "notice"
         IN  /\ stop = "check" => checked
             /\ stop = "store" => (calls /\ ~startFails)
             /\ stop = "notice" => notice # "none"
             /\ window = "call" => passes
             /\ window = "store" => (calls /\ ~startFails /\ ~stopAtStore)
             /\ early # {} => stores
             /\ passes => started + late_calls < MaxStarts
             /\ api_key' = key
             /\ use_gemini' = key
             /\ notices' = IF notice # "none" /\ ~stopAtNotice THEN {notice} ELSE {}
             /\ started' = IF calls THEN started + 1 ELSE started
             /\ session_keys' = IF stores THEN session_keys \cup {"chat_session"}
                                ELSE session_keys
             /\ chat_session' = IF stores
                                THEN [id |-> started + 1, history |-> <<>>]
                                ELSE chat_session
             /\ late_calls' = IF overtakenAtCall THEN late_calls + 1 ELSE late_calls
             /\ late_stores' = IF overtakenAtStore
                               THEN late_stores \cup {started + 1}
                               ELSE late_stores \ early
             /\ pc' = IF stopAtCheck \/ stopAtStore \/ stopAtNotice
                           \/ overtakenAtCall \/ overtakenAtStore
                      THEN "idle" ELSE "history"
    /\ displayed' = <<>>
    /\ current_score' = 0
    /\ user_input' = <<>>
    /\ gemini_response' = ""
    /\ call' = NoCall
    /\ prev_raised' = IF call = NoCall \/ call.outcome = "in_flight"
                      THEN prev_raised ELSE call.outcome = "raise"
    /\ prev_in_flight' = IF call = NoCall \/ call.outcome = "in_flight"
                         THEN prev_in_flight ELSE FALSE
    /\ UNCHANGED <<chat_history, rendered, pending, late, late_inits, lists,
                   turns>>

\* lines 7-22, run at the start of every execution.  load_dotenv() and
\* os.getenv read the credential anew: a variable that is set stays set
\* (load_dotenv does not override or remove it), one that is absent may have
\* been added to .env meanwhile.  use_gemini = False, then with a credential
\* the client is set up (lines 13-14 may raise), start_chat is called unless
\* the session state holds a chat session (it may raise) and its result is
\* stored, and use_gemini = True; a raise gives a warning and
\* use_gemini = False; without a credential an info notice is shown.  A
\* script-control exception at one of ModeStops ends the execution; at one
\* of ModeWindows the next execution starts and this one does the rest of
\* line 16 beside it (LateStartChat, LateStore).  The stores that overtaken
\* executions (early) do between this execution's test of line 15 and its
\* own store are overwritten by it.  The
\* execution runs the script in a namespace of its own: the globals
\* current_score, user_input and gemini_response of the execution before are
\* gone, and nothing of it is on the page any more.
ModeSelect ==
    /\ pc = "idle"
    /\ \E key \in (IF api_key THEN {TRUE} ELSE BOOLEAN),
          fail \in InitFailures, stop \in ModeStops, window \in ModeWindows,
          early \in SUBSET late_stores :
         LET absent == "chat_session" \notin session_keys
             \* lines 13-14 raise
             clientFails == key /\ fail = "client"
             \* line 15 is reached, and the execution is stopped there
             checked == key /\ ~clientFails
             stopAtCheck == checked /\ stop = "check"
             \* the test of line 15 finds no chat session
             passes == checked /\ ~stopAtCheck /\ absent
             \* the next execution starts before start_chat is called
             overtakenAtCall == passes /\ window = "call"
             \* line 16 calls start_chat, which raises
             calls == passes /\ ~overtakenAtCall
             startFails == calls /\ fail = "start_chat"
             \* start_chat returned and the assignment of line 16 is stopped
             stopAtStore == calls /\ ~startFails /\ stop = "store"
             \* the assignment has passed its stop check, and the next
             \* execution starts before the store
             overtakenAtStore ==
                 calls /\ ~startFails /\ ~stopAtStore /\ window = "store"
             stores ==
                 calls /\ ~startFails /\ ~stopAtStore /\ ~overtakenAtStore
             \* line 17 is reached
             online == checked /\ ~stopAtCheck /\ ~overtakenAtCall /\ ~startFails
                           /\ ~stopAtStore /\ ~overtakenAtStore
             \* line 19 or line 22, and the execution is stopped there
             notice == IF clientFails \/ startFails THEN "warning"
                       ELSE IF ~key THEN "info" ELSE "none"
             stopAtNotice == notice # "none" /\ stop = "notice"
         IN  /\ stop = "check" => checked
             /\ stop = "store" => (calls /\ ~startFails)
             /\ stop = "notice" => notice # "none"
             /\ window = "call" => passes
             /\ window = "store" => (calls /\ ~startFails /\ ~stopAtStore)
             /\ early # {} => stores
             /\ passes => started + late_calls < MaxStarts
             /\ api_key' = key
             /\ use_gemini' = online
             /\ notices' = IF notice # "none" /\ ~stopAtNotice THEN {notice} ELSE {}
             /\ started' = IF calls THEN started + 1 ELSE started
             /\ session_keys' = IF stores THEN session_keys \cup {"chat_session"}
                                ELSE session_keys
             /\ chat_session' = IF stores
                                THEN [id |-> started + 1, history |-> <<>>]
                                ELSE chat_session
             /\ late_calls' = IF overtakenAtCall THEN late_calls + 1 ELSE late_calls
             /\ late_stores' = IF overtakenAtStore
                               THEN late_stores \cup {started + 1}
                               ELSE late_stores \ early
             /\ pc' = IF stopAtCheck \/ stopAtStore \/ stopAtNotice
                           \/ overtakenAtCall \/ overtakenAtStore
                      THEN "idle" ELSE "history"
    /\ displayed' = <<>>
    /\ current_score' = 0
    /\ user_input' = <<>>
    /\ gemini_response' = ""
    /\ call' = NoCall
    /\ prev_raised' = IF call = NoCall \/ call.outcome = "in_flight"
                      THEN prev_raised ELSE call.outcome = "raise"
    /\ prev_in_flight' = IF call = NoCall \/ call.outcome = "in_flight"
                         THEN prev_in_flight ELSE FALSE
    /\ UNCHANGED <<chat_history, rendered, pending, late, late_inits, lists,
                   turns>>

\* lines 51-134: the page set-up and the chat history initialisation
InitHistory ==
    /\ pc = "history"
    /\ IF "chat_history" \notin session_keys
       THEN /\ session_keys' = session_keys \cup {"chat_history"}
            /\ chat_history' = <<>>
            /\ lists' = lists + 1
       ELSE UNCHANGED <<session_keys, chat_history, lists>>
    /\ pc' = "sidebar"
    /\ UNCHANGED <<api_key, use_gemini, chat_session, started, current_score,
                   user_input, gemini_response, notices, displayed, rendered,
                   call, prev_raised, prev_in_flight, pending, late,
                   late_calls, late_stores, late_inits, turns>>

\* lines 146-150
Sidebar ==
    /\ pc = "sidebar"
    /\ current_score' = compute_carbon_score(chat_history)
    /\ pc' = "input"
    /\ UNCHANGED <<api_key, use_gemini, session_keys, chat_session, started,
                   chat_history, user_input, gemini_response, notices,
                   displayed, rendered, call, prev_raised, prev_in_flight,
                   pending, late, late_calls, late_stores, late_inits, lists,
                   turns>>

\* lines 163-165: st.chat_input puts the widget on the page and gives the
\* text submitted with the interaction that caused this execution, or None;
\* nothing can be submitted before the widget was on the page.  A falsy value
\* skips lines 166-172.
ChatInput ==
    /\ pc = "input"
    /\ \E inp \in {<<>>} \cup SessionQueries :
         /\ inp # <<>> => (rendered /\ turns < MaxTurns)
         /\ user_input' = inp
         /\ turns' = IF inp # <<>> THEN turns + 1 ELSE turns
         /\ pc' = IF inp # <<>> THEN "append_user" ELSE "display"
    /\ rendered' = TRUE
    /\ UNCHANGED <<api_key, use_gemini, session_keys, chat_session, started,
                   chat_history, current_score, gemini_response, notices,
                   displayed, call, prev_raised, prev_in_flight, pending, late,
                   late_calls, late_stores, late_inits, lists>>

\* line 167: the st.session_state access and the append that follows it,
\* when no other execution starts between the two (see Overtaken)
AppendUser ==
    /\ pc = "append_user"
    /\ chat_history' = Append(chat_history, [role |-> "user", text |-> user_input])
    /\ pc' = "resolve"
    /\ UNCHANGED <<api_key, use_gemini, session_keys, chat_session, started,
                   current_score, user_input, gemini_response, notices,
                   displayed, rendered, call, prev_raised, prev_in_flight,
                   pending, late, late_calls, late_stores, late_inits, lists,
                   turns>>

\* lines 170-171 and 39-44: st.spinner, then get_gemini_response(user_input)
\* is entered.  Offline it returns offline_reply(user_input) at once; Online
\* it invokes send_message (line 41) on the chat session the session state
\* holds then, and waits for the remote.
Resolve ==
    /\ pc = "resolve"
    /\ LET \* whether send_message is invoked does not depend on what the
           \* remote will do
           r == get_gemini_response(use_gemini, user_input, "text", FALSE)
       IN  IF r.sent
           THEN /\ call' = [returned |-> FALSE, sent |-> TRUE,
                            outcome |-> "in_flight", error |-> FALSE,
                            session |-> chat_session.id]
                /\ pc' = "wait"
                /\ UNCHANGED <<gemini_response, notices>>
           ELSE /\ gemini_response' = r.ret
                /\ notices' = IF r.error /\ r.returned
                              THEN notices \cup {"error"} ELSE notices
                /\ call' = [returned |-> r.returned, sent |-> r.sent,
                            outcome |-> "none", error |-> r.error,
                            session |-> 0]
                /\ pc' = "reply"
    /\ UNCHANGED <<api_key, use_gemini, session_keys, chat_session, started,
                   chat_history, current_score, user_input, displayed,
                   rendered, prev_raised, prev_in_flight, pending, late,
                   late_calls, late_stores, late_inits, lists, turns>>

\* mutant: the except handler also switches the Mode to Offline
Receive_flip_mode_on_error ==
    /\ pc = "wait"
    /\ \E outcome \in RemoteOutcomes, stop \in BOOLEAN :
         LET r == get_gemini_response(use_gemini, user_input, outcome, stop)
         IN  /\ gemini_response' = IF r.returned THEN r.ret ELSE gemini_response
             /\ notices' = IF r.error /\ r.returned
                           THEN notices \cup {"error"} ELSE notices
             /\ chat_session' =
                  IF r.sent /\ outcome \notin {"raise", "base_exception"}
                        /\ call.session = chat_session.id
                  THEN [chat_session EXCEPT !.history = Append(@, user_input)]
                  ELSE chat_session
             /\ use_gemini' = IF r.error THEN FALSE ELSE use_gemini
             /\ call' = [returned |-> r.returned, sent |-> r.sent,
                         outcome |-> outcome, error |-> r.error,
                         session |-> call.session]
             /\ pc' = IF r.returned THEN "reply" ELSE "idle"
    /\ UNCHANGED <<api_key, session_keys, started, chat_history, current_score,
                   user_input, displayed, rendered, prev_raised,
                   prev_in_flight, pending, late, late_calls, late_stores,
                   late_inits, lists, turns>>

\* lines 41-47: the remote call of the running execution ends.  A
\* send_message that returns has recorded the turn in the chat session it
\* was called on (which the session state holds unless a LateStore replaced
\* it meanwhile); one that raises has not.  When a BaseException leaves
\* get_gemini_response the
\* execution ends there: line 172 is not reached.
Receive ==
    /\ pc = "wait"
    /\ \E outcome \in RemoteOutcomes, stop \in BOOLEAN :
         LET r == get_gemini_response(use_gemini, user_input, outcome, stop)
         IN  /\ gemini_response' = IF r.returned THEN r.ret ELSE gemini_response
             /\ notices' = IF r.error /\ r.returned
                           THEN notices \cup {"error"} ELSE notices
             /\ chat_session' =
                  IF r.sent /\ outcome \notin {"raise", "base_exception"}
                        /\ call.session = chat_session.id
                  THEN [chat_session EXCEPT !.history = Append(@, user_input)]
                  ELSE chat_session
             /\ call' = [returned |-> r.returned, sent |-> r.sent,
                         outcome |-> outcome, error |-> r.error,
                         session |-> call.session]
             /\ pc' = IF r.returned THEN "reply" ELSE "idle"
    /\ UNCHANGED <<api_key, use_gemini, session_keys, started, chat_history,
                   current_score, user_input, displayed, rendered, prev_raised,
                   prev_in_flight, pending, late, late_calls, late_stores,
                   late_inits, lists, turns>>

\* the user interacts while the execution waits in send_message: the
\* execution is told to stop, which it will do at the first st.* call or
\* st.session_state access after the wait (line 46 or 172), and the next
\* execution starts at once; the remote call stays in flight.  It is now
\* the latest call made by an earlier execution, and has not raised.
Abandon ==
    /\ pc = "wait"
    /\ pending' = Append(pending, [query |-> user_input, session |-> call.session])
    /\ prev_raised' = FALSE
    /\ prev_in_flight' = TRUE
    /\ pc' = "idle"
    /\ UNCHANGED <<api_key, use_gemini, session_keys, chat_session, started,
                   chat_history, current_score, user_input, gemini_response,
                   notices, displayed, rendered, call, late, late_calls,
                   late_stores, late_inits, lists, turns>>

\* the sequence s without its i-th element
Without(s, i) == SubSeq(s, 1, i - 1) \o SubSeq(s, i + 1, Len(s))

\* a send_message call of a stopped execution ends: when it returns, the
\* turn is recorded in the chat session it was called on (which the session
\* state holds unless a LateStore replaced it meanwhile); the stopped
\* execution then ends at line 46 or 172 without writing anything.  When
\* the call is the latest one made by an earlier execution, whether it
\* raised an Exception is what prev_raised records.
LateReturn ==
    /\ \E i \in DOMAIN pending, outcome \in RemoteOutcomes :
         /\ chat_session' =
              IF outcome \notin {"raise", "base_exception"}
                    /\ pending[i].session = chat_session.id
              THEN [chat_session EXCEPT !.history = Append(@, pending[i].query)]
              ELSE chat_session
         /\ pending' = Without(pending, i)
         /\ IF prev_in_flight /\ i = Len(pending)
            THEN /\ prev_raised' = (outcome = "raise")
                 /\ prev_in_flight' = FALSE
            ELSE UNCHANGED <<prev_raised, prev_in_flight>>
    /\ UNCHANGED <<api_key, use_gemini, session_keys, started, chat_history,
                   current_score, user_input, gemini_response, notices,
                   displayed, rendered, call, late, late_calls, late_stores,
                   late_inits, lists, turns, pc>>

\* line 16: an execution overtaken after the test of line 15 makes its
\* start_chat call; whether the call returns or raises, the execution ends
\* at the stop check of the assignment or at st.warning (line 19) without
\* storing anything
LateStartChat ==
    /\ late_calls > 0
    /\ late_calls' = late_calls - 1
    /\ started' = started + 1
    /\ UNCHANGED <<api_key, use_gemini, session_keys, chat_session,
                   chat_history, current_score, user_input, gemini_response,
                   notices, displayed, rendered, call, prev_raised,
                   prev_in_flight, pending, late, late_stores, late_inits,
                   lists, turns, pc>>

\* line 16: an execution overtaken inside the assignment stores its chat
\* session, whatever the session state holds by then, and ends at its next
\* st.* call (line 51)
LateStore ==
    /\ \E id \in late_stores :
         /\ session_keys' = session_keys \cup {"chat_session"}
         /\ chat_session' = [id |-> id, history |-> <<>>]
         /\ late_stores' = late_stores \ {id}
    /\ UNCHANGED <<api_key, use_gemini, started, chat_history, current_score,
                   user_input, gemini_response, notices, displayed, rendered,
                   call, prev_raised, prev_in_flight, pending, late,
                   late_calls, pc, late_inits, lists, turns>>

\* line 172: the st.session_state access and the append that follows it,
\* when no other execution starts between the two (see Overtaken)
AppendAssistant ==
    /\ pc = "reply"
    /\ chat_history' =
         Append(chat_history, [role |-> "assistant", text |-> gemini_response])
    /\ pc' = "display"
    /\ UNCHANGED <<api_key, use_gemini, session_keys, chat_session, started,
                   current_score, user_input, gemini_response, notices,
                   displayed, rendered, call, prev_raised, prev_in_flight,
                   pending, late, late_calls, late_stores, late_inits, lists,
                   turns>>

\* lines 134, 167 and 172: the execution has passed the stop check of the
\* st.session_state access of the line; the user interacts before it does
\* what follows the check: the execution is told to stop, which it will do
\* at its next st.* call (line 146, 170 or 175), and the next execution
\* starts at once.  At line 134 (reached when the test of line 133 found no
\* history) the store of the empty list is yet to be done; at lines 167 and
\* 172 the execution got the history list and its list.append is yet to be
\* done.
Overtaken ==
    /\ pc \in {"history", "append_user", "reply"}
    /\ IF pc = "history"
       THEN /\ "chat_history" \notin session_keys
            /\ late_inits < MaxLateInits
            /\ late_inits' = late_inits + 1
            /\ late' = late
       ELSE /\ late' = Append(late,
                          [role |-> IF pc = "append_user" THEN "user"
                                    ELSE "assistant",
                           text |-> IF pc = "append_user" THEN user_input
                                    ELSE gemini_response,
                           list |-> lists])
            /\ late_inits' = late_inits
    /\ pc' = "idle"
    /\ UNCHANGED <<api_key, use_gemini, session_keys, chat_session, started,
                   chat_history, current_score, user_input, gemini_response,
                   notices, displayed, rendered, call, prev_raised,
                   prev_in_flight, pending, late_calls, late_stores, lists,
                   turns>>

\* lines 167 and 172: an overtaken execution does its list.append and ends
\* at its next st.* call.  The list it appends to is the one it got from the
\* session state: when a LateInit has replaced that list meanwhile (hit =
\* FALSE), the history in the session state does not change.
LateAppend ==
    /\ \E i \in DOMAIN late :
         LET hit == late[i].list = lists
         IN  /\ chat_history' =
                  IF hit
                  THEN Append(chat_history,
                              [role |-> late[i].role, text |-> late[i].text])
                  ELSE chat_history
             /\ late' = Without(late, i)
    /\ UNCHANGED <<api_key, use_gemini, session_keys, chat_session, started,
                   current_score, user_input, gemini_response, notices,
                   displayed, rendered, call, prev_raised, prev_in_flight,
                   pending, late_calls, late_stores, late_inits, lists, turns,
                   pc>>

\* line 134: an execution overtaken inside the assignment stores its empty
\* list, whatever the session state holds by then, and ends at its next
\* st.* call (line 146)
LateInit ==
    /\ late_inits > 0
    /\ late_inits' = late_inits - 1
    /\ session_keys' = session_keys \cup {"chat_history"}
    /\ chat_history' = <<>>
    /\ lists' = lists + 1
    /\ UNCHANGED <<api_key, use_gemini, chat_session, started, current_score,
                   user_input, gemini_response, notices, displayed, rendered,
                   call, prev_raised, prev_in_flight, pending, late, late_calls,
                   late_stores, turns, pc>>

\* lines 175-179: the transcript is rendered and the execution ends
Display ==
    /\ pc = "display"
    /\ displayed' = chat_history
    /\ pc' = "idle"
    /\ UNCHANGED <<api_key, use_gemini, session_keys, chat_session, started,
                   chat_history, current_score, user_input, gemini_response,
                   notices, rendered, call, prev_raised, prev_in_flight,
                   pending, late, late_calls, late_stores, late_inits, lists,
                   turns>>

\* the positions at which the next statement is an st.* call or an
\* st.session_state access outside lines 7-22 and 41-47: lines 51-134 (page
\* set-up, chat_history test and assignment), 146-148 (sidebar), 149-163
\* (metric, chat input), 167 (session state), 170 (st.spinner), 172 (session
\* state), 175-179 (transcript)
StopPoints ==
    {"history", "sidebar", "input", "append_user", "resolve", "reply", "display"}

\* the st.* call or st.session_state access raises a script-control
\* exception (the user interacted with the page, or pressed Stop) and the
\* execution ends; the session state stays as the execution left it.  In
\* the transcript loop the messages before the one being rendered are on
\* the page.
Stopped ==
    /\ pc \in StopPoints
    /\ IF pc = "display"
       THEN \E k \in 0..(Len(chat_history) - 1) :
                displayed' = SubSeq(chat_history, 1, k)
       ELSE displayed' = displayed
    /\ pc' = "idle"
    /\ UNCHANGED <<api_key, use_gemini, session_keys, chat_session, started,
                   chat_history, current_score, user_input, gemini_response,
                   notices, rendered, call, prev_raised, prev_in_flight,
                   pending, late, late_calls, late_stores, late_inits, lists,
                   turns>>

Next ==
    \/ ModeSelect
    \/ InitHistory
    \/ Sidebar
    \/ ChatInput
    \/ AppendUser
    \/ Resolve
    \/ Receive
    \/ Abandon
    \/ LateReturn
    \/ LateStartChat
    \/ LateStore
    \/ AppendAssistant
    \/ Overtaken
    \/ LateAppend
    \/ LateInit
    \/ Display
    \/ Stopped

Spec == Init /\ [][Next]_vars

(***************************************************************************)
(* offline_reply as a function of its argument: the queries are the        *)
(* concatenations of at most MaxFrags fragments, which hold every keyword  *)
(* whole or in pieces, in several letter-casings, some with letters        *)
(* outside ASCII.                                                          *)
(***************************************************************************)
Fragments ==
    {  <<"j","o","k","e">>,
       <<"J","O","K","E">>,
       <<"F","u","n","n","y">>,
       <<"m","a","k","e"," ","m","e"," ">>,
       <<"l","a","u","g","h">>,
       <<"M","a","k","e"," ","M","e"," ","L","a","u","g","h">>,
       <<"s","t","o","r","y">>,
       <<"S","t","o","r","y">>,
       <<"B","E","D","T","I","M","E">>,
       <<"b","e","d","t","i","m","e">>,
       <<"t","e","l","l"," ","m","e"," ","a"," ">>,
       <<"R","i","d","d","l","e">>,
       <<"r","i","d","d","l","e">>,
       <<"P","U","Z","Z","L","E">>,
       <<"j","o","k">>,
       <<"e">>,
       <<"s","t","o","r">>,
       <<"y">>,
       <<" ">>,
       <<"h","e","l","l","o">>,
       <<"T","e","l","l"," ","m","e"," ","a"," ">>,
       <<"J","O",KelvinSign,"E">>,
       <<LongS,"t","o","r","y">>,
       <<"r",CapitalIDotAbove,"d","d","l","e">>,
       <<CapitalEAcute>>  }

RECURSIVE QueriesUpTo(_)
QueriesUpTo(n) ==
    IF n = 0
    THEN {<<>>}
    ELSE LET shorter == QueriesUpTo(n - 1)
         IN  shorter \cup {q \o f : q \in shorter, f \in Fragments}

InitMatch ==
    /\ Fresh
    /\ api_key = FALSE
    /\ chat_history = <<>>
    /\ user_input \in QueriesUpTo(MaxFrags)
    /\ pc = "match"

\* a call offline_reply(user_input), lines 25-34
MatchStep ==
    /\ pc = "match"
    /\ gemini_response' = offline_reply(user_input)
    /\ pc' = "matched"
    /\ UNCHANGED <<api_key, use_gemini, session_keys, chat_session, started,
                   chat_history, current_score, user_input, notices, displayed,
                   rendered, call, prev_raised, prev_in_flight, pending, late,
                   late_calls, late_stores, late_inits, lists, turns>>

NextMatch == MatchStep

SpecMatch == InitMatch /\ [][NextMatch]_vars

(***************************************************************************)
(* compute_carbon_score as a function of its argument: histories of every  *)
(* length up to MaxScoreLen.                                               *)
(***************************************************************************)
HistoryOfLen(n) ==
    [i \in 1..n |->
        IF i % 2 = 1
        THEN [role |-> "user", text |-> Q_hello]
        ELSE [role |-> "assistant", text |-> GenericReply]]

InitScore ==
    /\ Fresh
    /\ api_key = FALSE
    /\ chat_history \in {HistoryOfLen(n) : n \in 0..MaxScoreLen}
    /\ user_input = <<>>
    /\ pc = "score"

\* a call compute_carbon_score(chat_history), lines 138-144 and 148
ScoreStep ==
    /\ pc = "score"
    /\ current_score' = compute_carbon_score(chat_history)
    /\ pc' = "scored"
    /\ UNCHANGED <<api_key, use_gemini, session_keys, chat_session, started,
                   chat_history, user_input, gemini_response, notices,
                   displayed, rendered, call, prev_raised, prev_in_flight,
                   pending, late, late_calls, late_stores, late_inits, lists,
                   turns>>

NextScore == ScoreStep

SpecScore == InitScore /\ [][NextScore]_vars

(***************************************************************************)
(* Reference definitions used by the properties below.  They are written   *)
(* from the statements being checked, independently of the definitions     *)
(* above.                                                                  *)
(***************************************************************************)
IsPrefix(s, t) == Len(s) <= Len(t) /\ SubSeq(t, 1, Len(s)) = s

\* keyword k occurs in q when each character is compared with the keyword's
\* after lower-casing it alone
ContainsCI(k, q) ==
    \E i \in 0..(Len(q) - Len(k)) :
        \A j \in 1..Len(k) : LowerChar(q[i + j]) = <<k[j]>>

HasJoke(q) ==
    ContainsCI(K_joke, q) \/ ContainsCI(K_funny, q) \/ ContainsCI(K_make_me_laugh, q)

HasStory(q) ==
    ContainsCI(K_story, q) \/ ContainsCI(K_bedtime, q)
        \/ ContainsCI(K_tell_me_a_story, q)

HasRiddle(q) == ContainsCI(K_riddle, q) \/ ContainsCI(K_puzzle, q)

\* the first-match-wins matcher of the specification
RefMatch(q) ==
    CASE HasJoke(q) -> JokeReply
      [] ~HasJoke(q) /\ HasStory(q) -> StoryReply
      [] ~HasJoke(q) /\ ~HasStory(q) /\ HasRiddle(q) -> RiddleReply
      [] OTHER -> GenericReply

\* the upper-case form of one character, as a string (str.upper())
UpperChar(c) ==
    IF \E i \in DOMAIN LowerAlpha : LowerAlpha[i] = c
    THEN <<UpperAlpha[CHOOSE i \in DOMAIN LowerAlpha : LowerAlpha[i] = c]>>
    ELSE CASE c = SmallEAcute -> <<CapitalEAcute>>
           [] c = LongS -> <<"S">>
           [] OTHER -> <<c>>

RECURSIVE Upper(_)
Upper(s) == IF s = <<>> THEN <<>> ELSE UpperChar(Head(s)) \o Upper(Tail(s))

RECURSIVE SwapCase(_)
SwapCase(s) ==
    IF s = <<>>
    THEN <<>>
    ELSE (IF UpperChar(Head(s)) # <<Head(s)>>
          THEN UpperChar(Head(s))
          ELSE LowerChar(Head(s))) \o SwapCase(Tail(s))

\* other letter-casings of q: all upper, all lower, every case swapped
Recasings(q) == {Upper(q), Lower(q), SwapCase(q)}

ClampRef(x, lo, hi) == IF x < lo THEN lo ELSE IF x > hi THEN hi ELSE x

Alternates(h) ==
    \A i \in DOMAIN h : h[i].role = (IF i % 2 = 1 THEN "user" ELSE "assistant")

(***************************************************************************)
(* C1.                                                                     *)
(***************************************************************************)
\* C1 as stated: an Online call whose send_message raises returns
\* offline_reply(q) and leaves the Mode Online, and the next call of the
\* session attempts the remote call again.
C1_NextCallAlwaysRemote ==
    /\ [][(pc = "wait" /\ call'.outcome \in {"raise", "base_exception"}) =>
            /\ pc' = "reply"
            /\ gemini_response' = offline_reply(user_input)
            /\ use_gemini']_vars
    /\ []((pc \in {"wait", "reply"} /\ prev_raised) => call.sent)

\* C1 amended: when the send_message of an Online call raises an Exception,
\* the call either returns offline_reply(q) after the error notice, or, when
\* st.error is stopped, returns nothing and the execution ends with no
\* notice; either way the Mode and the chat session are as before the call,
\* and the Mode stays Online for the rest of that execution.  What the
\* failure leaves behind decides nothing later: a call made after a failed
\* one attempts the remote call exactly when its own execution selected
\* Online, that is, read a credential and set up the client without a raise.
C1_FailureKeepsMode ==
    /\ [][(pc = "wait" /\ call'.outcome = "raise") =>
            /\ use_gemini /\ use_gemini'
            /\ chat_session' = chat_session
            /\ chat_history' = chat_history
            /\ \/ /\ pc' = "reply"
                  /\ call'.returned
                  /\ gemini_response' = offline_reply(user_input)
                  /\ "error" \notin notices
                  /\ notices' = notices \cup {"error"}
               \/ /\ pc' = "idle"
                  /\ ~call'.returned
                  /\ notices' = notices
                  /\ gemini_response' = gemini_response]_vars
    /\ []((pc \in {"reply", "display"} /\ call.outcome = "raise") => use_gemini)
    /\ []((pc \in {"wait", "reply"} /\ prev_raised) =>
            /\ call.sent <=> use_gemini
            /\ call.sent <=> (api_key /\ "warning" \notin notices))

\* a failed Online call was followed by a call that attempted the remote again
C1_Witness ==
    pc = "reply" /\ prev_raised /\ call.sent
        /\ call.outcome = "raise" /\ gemini_response = JokeReply

(***************************************************************************)
(* C2.                                                                     *)
(***************************************************************************)
\* C2 as stated: when an execution renders the transcript, the sidebar score
\* it has shown equals clamp(12 + n, 0, 100) for the length n of the history
\* it renders; after the first input "Tell me a joke" without a credential
\* the history has 2 entries and the score shown is 14.
C2_SidebarMatchesShownHistory ==
    pc = "display" =>
        /\ current_score = ClampRef(12 + Len(chat_history), 0, 100)
        /\ (~api_key /\ Len(chat_history) = 2
               /\ chat_history[1].text = Q_tell_me_a_joke) =>
              (chat_history[2].text = JokeReply /\ current_score = 14)

(***************************************************************************)
(* C3.                                                                     *)
(***************************************************************************)
\* C3 as stated: the roles of the history alternate starting with the user,
\* between executions its length is even, and a step changes the history
\* only by appending to it.
C3_AppendOnlyAlternating ==
    /\ [](/\ Alternates(chat_history)
          /\ (pc = "idle" => Len(chat_history) % 2 = 0))
    /\ [][IsPrefix(chat_history, chat_history')]_vars

(***************************************************************************)
(* C4.                                                                     *)
(***************************************************************************)
\* C4 as stated: once the page was rendered the Mode never changes again,
\* whatever later executions do.
C4_ModeFixedAfterStartup ==
    [][(pc = "idle" /\ rendered) => use_gemini' = use_gemini]_vars

\* C4 amended: the Mode is selected anew at the start of every execution; in
\* an execution it is Online exactly when that execution read a credential
\* and its client initialisation did not fail, and no other step changes it.
C4_ModeSelectedEveryExecution ==
    /\ [](pc # "idle" =>
            /\ use_gemini = (api_key /\ "warning" \notin notices)
            /\ ("info" \in notices) = ~api_key)
    /\ [][use_gemini' # use_gemini => pc = "idle"]_vars

\* an execution after the first selected Offline although an earlier one had
\* selected Online and started the chat session
C4_Witness ==
    rendered /\ pc = "history" /\ ~use_gemini /\ "chat_session" \in session_keys

C6_MalformedFallsBack ==
    /\ (pc = "reply"
          /\ call.outcome \in {"notext", "text_attribute_error", "text_raises"}) =>
          gemini_response = offline_reply(user_input)
    /\ (pc = "reply" /\ call.sent) =>
          gemini_response \in {ResponseText, offline_reply(user_input)}

\* C6 amended: an Online call whose response has no text attribute, or whose
\* text property raises AttributeError, returns str(response) and no error
\* notice is shown; one whose text property raises another Exception either
\* returns offline_reply(q) after the error notice or, when st.error is
\* stopped, returns nothing and the execution ends with no notice; a
\* well-formed response gives its text; an Online call that returns gives
\* the response's text, str(response) or offline_reply(q).
C6_MalformedHandling ==
    /\ [][(pc = "wait" /\ call'.outcome \in {"notext", "text_attribute_error"}) =>
            /\ pc' = "reply"
            /\ gemini_response' = ResponseRepr
            /\ notices' = notices]_vars
    /\ [][(pc = "wait" /\ call'.outcome = "text_raises") =>
            \/ /\ pc' = "reply"
               /\ gemini_response' = offline_reply(user_input)
               /\ notices' = notices \cup {"error"}
            \/ /\ pc' = "idle"
               /\ ~call'.returned
               /\ notices' = notices
               /\ gemini_response' = gemini_response
               /\ chat_history' = chat_history]_vars
    /\ [][(pc = "wait" /\ call'.outcome = "text") =>
            /\ pc' = "reply"
            /\ gemini_response' = ResponseText
            /\ notices' = notices]_vars
    /\ []((pc = "reply" /\ call.sent) =>
            gemini_response \in {ResponseText, ResponseRepr, offline_reply(user_input)})
    /\ []("error" \in notices => (call.error /\ call.returned))

\* an Online call got a response without a text attribute
C6_Witness ==
    pc = "reply" /\ use_gemini /\ call.outcome = "notext"
        /\ gemini_response = ResponseRepr

(***************************************************************************)
(* C7.                                                                     *)
(***************************************************************************)
\* C7 as stated: offline_reply(q) is the first-match-wins matcher on the
\* lower-cased query; a query with a joke keyword and a story keyword gets
\* the joke; every other letter-casing of q gets the same reply.
C7_FirstMatchWins ==
    pc = "matched" =>
        /\ gemini_response = RefMatch(user_input)
        /\ (HasJoke(user_input) /\ HasStory(user_input)) => gemini_response = JokeReply
        /\ \A r \in Recasings(user_input) : offline_reply(r) = gemini_response

(***************************************************************************)
(* C8.                                                                     *)
(***************************************************************************)
\* C8 as stated: every query containing "story" or "bedtime" in any case
\* gets the story reply.
C8_StoryAlways ==
    (pc = "matched"
        /\ (ContainsCI(K_story, user_input) \/ ContainsCI(K_bedtime, user_input))) =>
        gemini_response = StoryReply

\* C8 amended: every query that contains "story" or "bedtime" once its
\* characters are lower-cased, and none of the joke keywords "joke", "funny",
\* "make me laugh", gets the story reply.
C8_StoryUnlessJoke ==
    (pc = "matched"
        /\ (ContainsCI(K_story, user_input) \/ ContainsCI(K_bedtime, user_input))
        /\ ~HasJoke(user_input)) =>
        gemini_response = StoryReply

\* "BEDTIME" in upper case together with a riddle keyword gets the story
C8_Witness ==
    pc = "matched" /\ ContainsCI(K_bedtime, user_input) /\ HasRiddle(user_input)
        /\ ~Contains(K_bedtime, user_input) /\ gemini_response = StoryReply

(***************************************************************************)
(* C9.                                                                     *)
(***************************************************************************)
\* C9: in Offline mode the call of get_gemini_response returns
\* offline_reply(q): send_message is not invoked, no notice is emitted, and
\* the Mode, the session keys and the chat session stay as they were.  (The
\* only other step the execution can take there is its stop at st.spinner,
\* before the call is made.)
C9_OfflineDirect ==
    [][(pc = "resolve" /\ ~use_gemini /\ pc' # pc) =>
          \/ /\ pc' = "reply"
             /\ call'.returned
             /\ gemini_response' = offline_reply(user_input)
             /\ ~call'.sent
             /\ ~call'.error
             /\ notices' = notices
             /\ use_gemini' = use_gemini
             /\ session_keys' = session_keys
             /\ chat_session' = chat_session
             /\ pending' = pending
          \/ /\ pc' = "idle"
             /\ UNCHANGED <<gemini_response, call, prev_raised, prev_in_flight,
                            notices, use_gemini, session_keys, chat_session,
                            pending, late, late_calls, late_stores, late_inits,
                            lists, turns>>]_vars

\* an Offline call was made while a chat session with a recorded turn exists
C9_Witness ==
    pc = "reply" /\ ~use_gemini /\ ~call.sent
        /\ "chat_session" \in session_keys /\ Len(chat_session.history) = 1
        /\ gemini_response = JokeReply

(***************************************************************************)
(* C10.                                                                    *)
(***************************************************************************)
\* C10: compute_carbon_score(history) = clamp(12 + len(history), 0, 100):
\* 12 for the empty history, 100 from length 88 on, within 0..100, and not
\* below the score of any shorter history.
C10_ScoreIsClamp ==
    pc = "scored" =>
        LET n == Len(chat_history)
        IN  /\ current_score = ClampRef(12 + n, 0, 100)
            /\ n = 0 => current_score = 12
            /\ n >= 88 => current_score = 100
            /\ current_score >= 0 /\ current_score <= 100
            /\ \A m \in 0..n :
                  compute_carbon_score(SubSeq(chat_history, 1, m)) <= current_score

\* a history long enough for the clamp to act
C10_Witness ==
    pc = "scored" /\ Len(chat_history) > 88 /\ current_score = 100

====
